---------------------------- MODULE Spec2Model ----------------------------
(***************************************************************************)
(* A model of noxfile.py: the nox sessions of python-bigquery.  A session  *)
(* body is a straight-line list of steps (session.install, session.run,    *)
(* session.skip, shutil.rmtree, open) chosen by the interpreter version,   *)
(* the process environment and the positional arguments; nox runs the      *)
(* steps in order and a failing step raises out of the body.  Every body   *)
(* is wrapped by _calculate_duration.                                      *)
(***************************************************************************)
EXTENDS Integers, Sequences, FiniteSets, TLC

VARIABLES
    environ,    \* os.environ: a function from the variables that are set to their values
    posargs,    \* the trailing positional arguments of the nox command line
    fs,         \* the file artifacts of the working tree: coverage data, docs/_build
    session,    \* the session nox is running: its name and session.python
    phase,      \* "idle" | "body" | "wrapper" | "done"
    pc,         \* the position of the next step in the session body
    log,        \* the steps the running session has executed, in order
    body,       \* how the session body ended: returned / skipped / failed
    outcome,    \* how the wrapped session ended, as nox sees it
    printed     \* the lines the wrapper printed in this session run

vars == <<environ, posargs, fs, session, phase, pc, log, body, outcome, printed>>

(***************************************************************************)
(* Bounds and input choices.                                               *)
(***************************************************************************)
MaxPosargs == 2

\* The command-line arguments a run may pass after "--": a prefix of this list.
PosargPool == <<"-k", "test_query", "-x">>

PosargChoices == { SubSeq(PosargPool, 1, n) : n \in 0..MaxPosargs }

\* Elapsed wall-clock time of a session, in half seconds (time.monotonic()
\* is a float; halves are where round() has to decide).
ElapsedChoices == {0, 125, 7323}

(***************************************************************************)
(* The constants block.                                                    *)
(***************************************************************************)
MYPY_VERSION == "mypy==1.6.1"

PYTYPE_VERSION == "pytype==2024.9.13"

BLACK_VERSION == "black==23.7.0"

BLACK_PATHS ==
    <<"benchmark", "docs", "google", "samples", "samples/tests", "tests",
      "noxfile.py", "setup.py">>

DEFAULT_PYTHON_VERSION == "3.9"

SYSTEM_TEST_PYTHON_VERSIONS == <<"3.9", "3.11", "3.12", "3.13">>

UNIT_TEST_PYTHON_VERSIONS == <<"3.9", "3.11", "3.12", "3.13">>

CURRENT_DIRECTORY == "/repo"

(***************************************************************************)
(* Helpers: paths, the environment, sequences.                             *)
(***************************************************************************)
Range(s) == { s[i] : i \in 1..Len(s) }

Last(s) == s[Len(s)]

\* os.path.join on relative, non-empty leading parts: a trailing "" part
\* leaves a trailing separator.
RECURSIVE OsPathJoin(_)
OsPathJoin(parts) ==
    IF Len(parts) = 1 THEN parts[1]
    ELSE OsPathJoin(SubSeq(parts, 1, Len(parts) - 1)) \o "/" \o Last(parts)

\* str(CURRENT_DIRECTORY / "testing" / f"constraints-{python}.txt")
ConstraintsPath(python) ==
    OsPathJoin(<<CURRENT_DIRECTORY, "testing", "constraints-" \o python \o ".txt">>)

\* os.environ.get(name, "")
EnvironGet(name) == IF name \in DOMAIN environ THEN environ[name] ELSE ""

\* not os.environ.get("GOOGLE_APPLICATION_CREDENTIALS", "")
CredentialsMissingUnsetOnly == "GOOGLE_APPLICATION_CREDENTIALS" \notin DOMAIN environ

CredentialsMissing == EnvironGet("GOOGLE_APPLICATION_CREDENTIALS") = ""

(***************************************************************************)
(* Steps.                                                                  *)
(***************************************************************************)
Install(args) == [op |-> "install", args |-> args]

Run(args) == [op |-> "run", args |-> args]

Skip(reason) == [op |-> "skip", args |-> <<reason>>]

Rmtree(path) == [op |-> "rmtree", args |-> <<path>>]

Open(path) == [op |-> "open", args |-> <<path>>]

PipFreeze == Run(<<"python", "-m", "pip", "freeze">>)

UninstallPandasGbq == Run(<<"python", "-m", "pip", "uninstall", "pandas-gbq", "-y">>)

When(cond, steps) == IF cond THEN steps ELSE <<>>


(***************************************************************************)
(* Extras.  pip reads the extras of "-e .[a,b]" from the brackets; the     *)
(* targets below are the ones noxfile.py writes.  "all" is the extra that  *)
(* bundles every optional extra of the package: the ones the noxfile names *)
(* plus ipython, which the unit session leaves out on purpose.             *)
(***************************************************************************)
AllExtras ==
    {"bqstorage", "pandas", "ipywidgets", "geopandas", "ipython", "matplotlib",
     "tqdm", "opentelemetry", "bigquery_v2"}

UNIT_LOWEST_TARGET ==
    ".[bqstorage,pandas,ipywidgets,geopandas,matplotlib,tqdm,opentelemetry,bigquery_v2]"

SYSTEM_311_312_EXTRAS == "[bqstorage,ipywidgets,pandas,tqdm,opentelemetry]"

SNIPPETS_311_312_EXTRAS ==
    "[bqstorage,pandas,ipywidgets,geopandas,tqdm,opentelemetry,bigquery_v2]"

\* The extras an install target selects.
ParseExtras(target) ==
    CASE target = "." -> {}
      [] target = ".[all]" -> AllExtras
      [] target = UNIT_LOWEST_TARGET ->
           {"bqstorage", "pandas", "ipywidgets", "geopandas", "matplotlib",
            "tqdm", "opentelemetry", "bigquery_v2"}
      [] target = "." \o SYSTEM_311_312_EXTRAS ->
           {"bqstorage", "ipywidgets", "pandas", "tqdm", "opentelemetry"}
      [] target = "." \o SNIPPETS_311_312_EXTRAS ->
           {"bqstorage", "pandas", "ipywidgets", "geopandas", "tqdm",
            "opentelemetry", "bigquery_v2"}

(***************************************************************************)
(* default(session, install_extras): the unit test body.                   *)
(***************************************************************************)
DefaultInstallTargetAlwaysAll(python, install_extras) ==
    IF install_extras THEN ".[all]" ELSE "."

DefaultInstallTarget(python, install_extras) ==
    IF install_extras /\ python = UNIT_TEST_PYTHON_VERSIONS[1]
    THEN UNIT_LOWEST_TARGET
    ELSE IF install_extras THEN ".[all]" ELSE "."

DefaultUninstallsOnlyWithExtras(python, install_extras) ==
    install_extras /\ python = UNIT_TEST_PYTHON_VERSIONS[1]

DefaultUninstalls(python, install_extras) ==
    python = UNIT_TEST_PYTHON_VERSIONS[1]

DefaultPytestArgs(pargs) ==
    <<"py.test", "-n=8", "--quiet", "-W default::PendingDeprecationWarning",
      "--cov=google/cloud/bigquery", "--cov=tests/unit", "--cov-append",
      "--cov-config=.coveragerc", "--cov-report=", "--cov-fail-under=0",
      OsPathJoin(<<"tests", "unit">>)>> \o pargs

default(python, pargs, install_extras) ==
    LET constraints_path == ConstraintsPath(python) IN
    <<Install(<<"pytest", "google-cloud-testutils", "pytest-cov", "pytest-xdist",
                "freezegun", "-c", constraints_path>>),
      Install(<<"-e", DefaultInstallTarget(python, install_extras),
                "-c", constraints_path>>)>>
    \o When(DefaultUninstalls(python, install_extras), <<UninstallPandasGbq>>)
    \o <<PipFreeze, Run(DefaultPytestArgs(pargs))>>

unit(python, pargs) == default(python, pargs, TRUE)

unit_noextras(python, pargs) ==
    When(python = UNIT_TEST_PYTHON_VERSIONS[1],
         <<Install(<<"pyarrow==4.0.0", "numpy==1.20.2">>)>>)
    \o default(python, pargs, FALSE)

(***************************************************************************)
(* Type checks.                                                            *)
(***************************************************************************)
mypy(python, pargs) ==
    <<Install(<<"-e", ".[all]">>),
      Install(<<MYPY_VERSION>>),
      Install(<<"types-protobuf", "types-python-dateutil", "types-requests",
                "types-setuptools">>),
      PipFreeze,
      Run(<<"mypy", "-p", "google", "--show-traceback">>)>>

pytype(python, pargs) ==
    <<Install(<<"attrs==20.3.0">>),
      Install(<<"-e", ".[all]">>),
      Install(<<PYTYPE_VERSION>>),
      PipFreeze,
      Run(<<"pytype", "-P", ".", "google/cloud/bigquery">>)>>

\* CURRENT_DIRECTORY.glob("samples/*/requirements.txt"): the sample
\* directories of the working tree.
SampleRequirements ==
    <<OsPathJoin(<<CURRENT_DIRECTORY, "samples/desktopapp/requirements.txt">>),
      OsPathJoin(<<CURRENT_DIRECTORY, "samples/geography/requirements.txt">>),
      OsPathJoin(<<CURRENT_DIRECTORY, "samples/snippets/requirements.txt">>)>>

mypy_samples(python, pargs) ==
    <<Install(<<"pytest">>)>>
    \o [i \in 1..Len(SampleRequirements) |-> Install(<<"-r", SampleRequirements[i]>>)]
    \o <<Install(<<MYPY_VERSION>>),
         Install(<<"-e", ".[all]">>),
         Install(<<"types-mock", "types-pytz", "types-protobuf!=4.24.0.20240106",
                   "types-python-dateutil", "types-requests", "types-setuptools">>),
         PipFreeze,
         Run(<<"mypy", "--config-file",
               OsPathJoin(<<CURRENT_DIRECTORY, "samples", "mypy.ini">>),
               "--no-incremental", "samples/">>)>>

(***************************************************************************)
(* system and snippets.                                                    *)
(***************************************************************************)
SystemExtras(python) ==
    IF python \in {"3.11", "3.12"} THEN SYSTEM_311_312_EXTRAS ELSE "[all]"

SystemPytestArgsWithCoverage(pargs) ==
    <<"py.test", "-n=auto", "--quiet", "-W default::PendingDeprecationWarning",
      "--cov=google/cloud/bigquery", "--cov-append",
      OsPathJoin(<<"tests", "system">>)>> \o pargs

SystemPytestArgs(pargs) ==
    <<"py.test", "-n=auto", "--quiet", "-W default::PendingDeprecationWarning",
      OsPathJoin(<<"tests", "system">>)>> \o pargs

system(python, pargs) ==
    LET constraints_path == ConstraintsPath(python) IN
    When(CredentialsMissing,
         <<Skip("Credentials must be set via environment variable.")>>)
    \o <<Install(<<"--pre", "grpcio!=1.49.0rc1", "-c", constraints_path>>),
         Install(<<"pytest", "psutil", "pytest-xdist", "google-cloud-testutils",
                   "-c", constraints_path>>),
         IF EnvironGet("GOOGLE_API_USE_CLIENT_CERTIFICATE") = "true"
         THEN Install(<<"google-cloud-storage", "pyopenssl">>)
         ELSE Install(<<"google-cloud-storage", "-c", constraints_path>>),
         Install(<<"google-cloud-datacatalog", "-c", constraints_path>>),
         Install(<<"google-cloud-resource-manager", "-c", constraints_path>>),
         Install(<<"-e", "." \o SystemExtras(python), "-c", constraints_path>>)>>
    \o When(python = SYSTEM_TEST_PYTHON_VERSIONS[1], <<UninstallPandasGbq>>)
    \o <<PipFreeze, Run(SystemPytestArgs(pargs))>>

SnippetsExtras(python) ==
    IF python \in {"3.11", "3.12"} THEN SNIPPETS_311_312_EXTRAS ELSE "[all]"

SnippetsSamplesArgsNoPosargs(pargs) ==
    <<"py.test", "-n=auto", "samples", "-W default::PendingDeprecationWarning",
      "--ignore=samples/desktopapp", "--ignore=samples/magics",
      "--ignore=samples/geography", "--ignore=samples/notebooks",
      "--ignore=samples/snippets">>

SnippetsSamplesArgs(pargs) ==
    <<"py.test", "-n=auto", "samples", "-W default::PendingDeprecationWarning",
      "--ignore=samples/desktopapp", "--ignore=samples/magics",
      "--ignore=samples/geography", "--ignore=samples/notebooks",
      "--ignore=samples/snippets">> \o pargs

snippets(python, pargs) ==
    LET constraints_path == ConstraintsPath(python) IN
    <<Install(<<"pytest", "pytest-xdist", "google-cloud-testutils",
                "-c", constraints_path>>),
      Install(<<"google-cloud-storage", "-c", constraints_path>>),
      Install(<<"grpcio", "-c", constraints_path>>),
      Install(<<"-e", "." \o SnippetsExtras(python), "-c", constraints_path>>),
      PipFreeze,
      Run(<<"py.test", "-n=auto", OsPathJoin(<<"docs", "snippets.py">>)>> \o pargs),
      Run(SnippetsSamplesArgs(pargs))>>

(***************************************************************************)
(* cover.                                                                  *)
(***************************************************************************)
cover(python, pargs) ==
    <<Install(<<"coverage", "pytest-cov">>),
      PipFreeze,
      Run(<<"coverage", "report", "--show-missing", "--fail-under=100">>),
      Run(<<"coverage", "erase">>)>>

(***************************************************************************)
(* prerelease_deps.                                                        *)
(***************************************************************************)
\* The lines of testing/constraints-3.9.txt as the regular expression sees
\* them: the text before "==" and whether a pin "==<version>" follows.
ConstraintsText ==
    <<[name |-> "# Pinned minimum versions", pinned |-> FALSE],
      [name |-> "grpcio", pinned |-> TRUE],
      [name |-> "pandas", pinned |-> TRUE],
      [name |-> "", pinned |-> FALSE]>>

\* re.finditer(r"^\s*(\S+)(?===\S+)", constraints_text, flags=re.MULTILINE)
Deps == SelectSeq(ConstraintsText, LAMBDA line : line.pinned)

PrereleasePytestArgs(target) ==
    <<"py.test", "-n=auto", target, "-W default::PendingDeprecationWarning">>

prerelease_deps(python, pargs) ==
    <<Open(ConstraintsPath(UNIT_TEST_PYTHON_VERSIONS[1])),
      Install([i \in 1..Len(Deps) |-> Deps[i].name]),
      Install(<<"--pre", "--upgrade", "freezegun", "google-cloud-datacatalog",
                "google-cloud-resource-manager", "google-cloud-storage",
                "google-cloud-testutils", "psutil", "pytest", "pytest-xdist",
                "pytest-cov">>),
      Install(<<"--extra-index-url",
                "https://pypi.anaconda.org/scientific-python-nightly-wheels/simple",
                "--prefer-binary", "--pre", "--upgrade", "pyarrow">>),
      Install(<<"--pre", "--upgrade", "IPython", "ipykernel", "ipywidgets", "tqdm",
                "git+https://github.com/pypa/packaging.git", "pandas">>),
      Install(<<"--pre", "--upgrade", "--no-deps", "google-api-core",
                "google-cloud-bigquery-storage", "google-cloud-core",
                "google-resumable-media", "db-dtypes", "grpcio", "protobuf">>),
      Install(<<"-e", ".", "--no-deps">>),
      PipFreeze,
      Run(PrereleasePytestArgs("tests/unit")),
      Run(PrereleasePytestArgs("tests/system")),
      Run(PrereleasePytestArgs("samples/tests"))>>

(***************************************************************************)
(* lint, lint_setup_py, blacken.                                           *)
(***************************************************************************)
LintFlake8Targets ==
    <<OsPathJoin(<<"google", "cloud", "bigquery">>),
      "tests",
      OsPathJoin(<<"docs", "samples">>),
      OsPathJoin(<<"docs", "snippets.py">>),
      "benchmark">>

LintBlackArgsNoCheck == <<"black">> \o BLACK_PATHS

LintBlackArgs == <<"black", "--check">> \o BLACK_PATHS

lint(python, pargs) ==
    <<Install(<<"flake8", BLACK_VERSION>>),
      Install(<<"-e", ".">>),
      PipFreeze>>
    \o [i \in 1..Len(LintFlake8Targets) |-> Run(<<"flake8", LintFlake8Targets[i]>>)]
    \o <<Run(LintBlackArgs)>>

lint_setup_py(python, pargs) ==
    <<Install(<<"docutils", "Pygments">>),
      PipFreeze,
      Run(<<"python", "setup.py", "check", "--restructuredtext", "--strict">>)>>

blacken(python, pargs) ==
    <<Install(<<BLACK_VERSION>>),
      PipFreeze,
      Run(<<"black">> \o BLACK_PATHS)>>

(***************************************************************************)
(* docs and docfx.                                                         *)
(***************************************************************************)
DOCS_BUILD == OsPathJoin(<<"docs", "_build">>)

SphinxPaths ==
    <<"-b", "html", "-d",
      OsPathJoin(<<"docs", "_build", "doctrees", "">>),
      OsPathJoin(<<"docs", "">>),
      OsPathJoin(<<"docs", "_build", "html", "">>)>>

DocsSphinxArgsNoW == <<"sphinx-build", "-T", "-N">> \o SphinxPaths

DocsSphinxArgs == <<"sphinx-build", "-W", "-T", "-N">> \o SphinxPaths

DocfxExtensions ==
    "extensions=sphinx.ext.autodoc," \o "sphinx.ext.autosummary,"
    \o "docfx_yaml.extension," \o "sphinx.ext.intersphinx,"
    \o "sphinx.ext.coverage," \o "sphinx.ext.napoleon," \o "sphinx.ext.todo,"
    \o "sphinx.ext.viewcode," \o "recommonmark"

DocfxSphinxArgs == <<"sphinx-build", "-T", "-N", "-D", DocfxExtensions>> \o SphinxPaths

docs(python, pargs) ==
    <<Install(<<"sphinxcontrib-applehelp==1.0.4", "sphinxcontrib-devhelp==1.0.2",
                "sphinxcontrib-htmlhelp==2.0.1", "sphinxcontrib-qthelp==1.0.3",
                "sphinxcontrib-serializinghtml==1.1.5", "sphinx==4.5.0",
                "alabaster", "recommonmark">>),
      Install(<<"google-cloud-storage">>),
      Install(<<"-e", ".[all]">>),
      Rmtree(DOCS_BUILD),
      PipFreeze,
      Run(DocsSphinxArgs)>>

docfx(python, pargs) ==
    <<Install(<<"-e", ".">>),
      Install(<<"sphinxcontrib-applehelp==1.0.4", "sphinxcontrib-devhelp==1.0.2",
                "sphinxcontrib-htmlhelp==2.0.1", "sphinxcontrib-qthelp==1.0.3",
                "sphinxcontrib-serializinghtml==1.1.5", "gcp-sphinx-docfx-yaml",
                "alabaster", "recommonmark">>),
      Rmtree(DOCS_BUILD),
      PipFreeze,
      Run(DocfxSphinxArgs)>>

(***************************************************************************)
(* The session registry: @nox.session(python=...) and @_calculate_duration.*)
(***************************************************************************)
SessionNames ==
    {"unit", "unit_noextras", "mypy", "pytype", "system", "mypy_samples",
     "snippets", "cover", "prerelease_deps", "lint", "lint_setup_py", "blacken",
     "docs", "docfx"}

\* The sessions whose function carries @_calculate_duration.
TimedSessions ==
    {"unit", "unit_noextras", "mypy", "pytype", "system", "mypy_samples",
     "snippets", "cover", "prerelease_deps", "lint", "lint_setup_py", "blacken",
     "docs", "docfx"}

\* The python= parameter of @nox.session.
Pythons(name) ==
    CASE name = "unit" -> Range(UNIT_TEST_PYTHON_VERSIONS)
      [] name = "unit_noextras" ->
           {UNIT_TEST_PYTHON_VERSIONS[1], Last(UNIT_TEST_PYTHON_VERSIONS)}
      [] name \in {"system", "snippets", "prerelease_deps"} ->
           Range(SYSTEM_TEST_PYTHON_VERSIONS)
      [] name \in {"docs", "docfx"} -> {"3.10"}
      [] OTHER -> {DEFAULT_PYTHON_VERSION}

\* The steps the function of session `name` runs.
Body(name, python, pargs) ==
    CASE name = "unit" -> unit(python, pargs)
      [] name = "unit_noextras" -> unit_noextras(python, pargs)
      [] name = "mypy" -> mypy(python, pargs)
      [] name = "pytype" -> pytype(python, pargs)
      [] name = "system" -> system(python, pargs)
      [] name = "mypy_samples" -> mypy_samples(python, pargs)
      [] name = "snippets" -> snippets(python, pargs)
      [] name = "cover" -> cover(python, pargs)
      [] name = "prerelease_deps" -> prerelease_deps(python, pargs)
      [] name = "lint" -> lint(python, pargs)
      [] name = "lint_setup_py" -> lint_setup_py(python, pargs)
      [] name = "blacken" -> blacken(python, pargs)
      [] name = "docs" -> docs(python, pargs)
      [] name = "docfx" -> docfx(python, pargs)

(***************************************************************************)
(* _calculate_duration: the wrapper around every session function.         *)
(***************************************************************************)
\* round(end - start) on a difference given in half seconds: Python rounds
\* a tie to the even integer.
RoundHalves(halves) ==
    LET whole == halves \div 2 IN
    IF halves % 2 = 0 THEN whole
    ELSE IF whole % 2 = 0 THEN whole ELSE whole + 1

\* f"{n:0>2}"
Pad2(n) == IF n < 10 THEN "0" \o ToString(n) ELSE ToString(n)

\* f"{hours:}:{minutes:0>2}:{seconds:0>2}"
HumanTime(total_seconds) ==
    LET hours == total_seconds \div 3600
        remaining_seconds == total_seconds % 3600
        minutes == remaining_seconds \div 60
        seconds == remaining_seconds % 60
    IN  ToString(hours) \o ":" \o Pad2(minutes) \o ":" \o Pad2(seconds)

DurationLine(elapsed) ==
    LET total_seconds == RoundHalves(elapsed) IN
    "Session ran in " \o ToString(total_seconds) \o " seconds ("
        \o HumanTime(total_seconds) \o ")"

NoValue == "None"

\* How a function call ends: by returning a value or by raising.
Returned(value) == [outcome |-> "returned", value |-> value]

Raised(kind) == [outcome |-> kind, value |-> NoValue]

NotEnded == [outcome |-> "none", value |-> NoValue]

\* A wrapper that reports the time in a finally clause and returns from it:
\* the body's exception is lost.
wrapperSwallows(func_end, elapsed) ==
    [end |-> Returned(func_end.value), printed |-> <<DurationLine(elapsed)>>]

\* A wrapper that forgets "return result".
wrapperDropsResult(func_end, elapsed) ==
    IF func_end.outcome = "returned"
    THEN [end |-> Returned("dropped"), printed |-> <<DurationLine(elapsed)>>]
    ELSE [end |-> func_end, printed |-> <<>>]

\* wrapper(*args, **kwargs), from the point where func has ended: an
\* exception of func propagates, a return is followed by the line and
\* "return result".
wrapper(func_end, elapsed) ==
    IF func_end.outcome = "returned"
    THEN [end |-> Returned(func_end.value), printed |-> <<DurationLine(elapsed)>>]
    ELSE [end |-> func_end, printed |-> <<>>]

(***************************************************************************)
(* The tools' effects on the file artifacts of the working tree.           *)
(***************************************************************************)
NoBuild == [exists |-> FALSE, files |-> {}]

IsPytest(args) == args[1] = "py.test"

IsSphinx(args) == args[1] = "sphinx-build"

IsCoverage(args, command) == args[1] = "coverage" /\ args[2] = command

\* py.test --cov=... writes the coverage data file; --cov-append keeps what
\* the file holds.
CoverageAfterPytest(args, name) ==
    IF \E i \in 1..Len(args) : args[i] = "--cov=google/cloud/bigquery"
    THEN IF "--cov-append" \in Range(args)
         THEN fs.coverage \cup {name}
         ELSE {name}
    ELSE fs.coverage

\* What a command reads of the artifacts: coverage report reads the data
\* file, sphinx-build its doctree and output directories.
RunReads(args) ==
    IF IsCoverage(args, "report") THEN fs.coverage
    ELSE IF IsSphinx(args) THEN fs.build.files
    ELSE {}

\* What a command erases of the artifacts.
RunRemoves(args, ok) ==
    IF IsCoverage(args, "erase") /\ ok THEN fs.coverage ELSE {}

\* The artifacts after a command of session `name`.
RunWrites(args, ok, name) ==
    IF IsPytest(args)
    THEN [fs EXCEPT !.coverage = CoverageAfterPytest(args, name)]
    ELSE IF IsCoverage(args, "erase") /\ ok
    THEN [fs EXCEPT !.coverage = {}]
    ELSE IF IsSphinx(args)
    THEN [fs EXCEPT !.build = [exists |-> TRUE, files |-> fs.build.files \cup {name}]]
    ELSE fs

\* shutil.rmtree(path) raises when the directory does not exist.
RmtreeOkStrict(exists) == exists

\* shutil.rmtree(path, ignore_errors=True)
RmtreeOk(exists) == TRUE

(***************************************************************************)
(* nox: running a session.                                                 *)
(***************************************************************************)
\* session.install and session.run raise when the command fails, and the
\* exception leaves the session function.
AfterStepKeepsGoing(ok) == "continue"

AfterStep(ok) == IF ok THEN "continue" ELSE "failed"

Steps == Body(session.name, session.python, posargs)

AtStep(op) == phase = "body" /\ pc <= Len(Steps) /\ Steps[pc].op = op

Entry(step, ok, seen, removed) ==
    [idx |-> pc, op |-> step.op, args |-> step.args, ok |-> ok,
     seen |-> seen, removed |-> removed]

Advance(ok) ==
    IF AfterStep(ok) = "continue"
    THEN pc' = pc + 1 /\ UNCHANGED <<phase, body>>
    ELSE pc' = pc /\ phase' = "wrapper" /\ body' = Raised("failed")

EnvChoices ==
    { e \in UNION { [D -> {"", "true", "/keys/sa.json"}] :
                    D \in SUBSET {"GOOGLE_APPLICATION_CREDENTIALS",
                                  "GOOGLE_API_USE_CLIENT_CERTIFICATE"} } :
        /\ "GOOGLE_APPLICATION_CREDENTIALS" \in DOMAIN e
             => e["GOOGLE_APPLICATION_CREDENTIALS"] \in {"", "/keys/sa.json"}
        /\ "GOOGLE_API_USE_CLIENT_CERTIFICATE" \in DOMAIN e
             => e["GOOGLE_API_USE_CLIENT_CERTIFICATE"] = "true" }

Idle == [name |-> "none", python |-> "none"]

Init ==
    /\ environ \in EnvChoices
    /\ posargs \in PosargChoices
    /\ fs \in { [coverage |-> {}, build |-> b] :
                b \in {NoBuild, [exists |-> TRUE, files |-> {"stale"}]} }
    /\ session = Idle
    /\ phase = "idle"
    /\ pc = 1
    /\ log = <<>>
    /\ body = NotEnded
    /\ outcome = NotEnded
    /\ printed = <<>>

\* nox picks a registered session and an interpreter of its python list and
\* calls the (wrapped) session function.
StartSession ==
    /\ phase \in {"idle", "done"}
    /\ \E name \in SessionNames : \E python \in Pythons(name) :
         session' = [name |-> name, python |-> python]
    /\ phase' = "body"
    /\ pc' = 1
    /\ log' = <<>>
    /\ body' = NotEnded
    /\ outcome' = NotEnded
    /\ printed' = <<>>
    /\ UNCHANGED <<environ, posargs, fs>>

\* session.install(*args)
SessionInstall ==
    /\ AtStep("install")
    /\ \E ok \in BOOLEAN :
         /\ log' = Append(log, Entry(Steps[pc], ok, {}, {}))
         /\ Advance(ok)
    /\ UNCHANGED <<environ, posargs, fs, session, outcome, printed>>

\* session.run(*args)
SessionRun ==
    /\ AtStep("run")
    /\ \E ok \in BOOLEAN :
         LET args == Steps[pc].args IN
         /\ log' = Append(log, Entry(Steps[pc], ok, RunReads(args), RunRemoves(args, ok)))
         /\ fs' = RunWrites(args, ok, session.name)
         /\ Advance(ok)
    /\ UNCHANGED <<environ, posargs, session, outcome, printed>>

\* session.skip(reason) raises: the function ends there.
SessionSkip ==
    /\ AtStep("skip")
    /\ log' = Append(log, Entry(Steps[pc], TRUE, {}, {}))
    /\ phase' = "wrapper"
    /\ body' = Raised("skipped")
    /\ UNCHANGED <<environ, posargs, fs, session, pc, outcome, printed>>

\* shutil.rmtree(os.path.join("docs", "_build"), ignore_errors=True)
ShutilRmtree ==
    /\ AtStep("rmtree")
    /\ LET ok == RmtreeOk(fs.build.exists) IN
         /\ log' = Append(log, Entry(Steps[pc], ok, {}, fs.build.files))
         /\ fs' = [fs EXCEPT !.build = NoBuild]
         /\ Advance(ok)
    /\ UNCHANGED <<environ, posargs, session, outcome, printed>>

\* with open(...) as constraints_file: constraints_file.read()
OpenRead ==
    /\ AtStep("open")
    /\ \E ok \in BOOLEAN :
         /\ log' = Append(log, Entry(Steps[pc], ok, {}, {}))
         /\ Advance(ok)
    /\ UNCHANGED <<environ, posargs, fs, session, outcome, printed>>

\* The session function falls off its end: it returns None.
FuncReturn ==
    /\ phase = "body"
    /\ pc > Len(Steps)
    /\ phase' = "wrapper"
    /\ body' = Returned(NoValue)
    /\ UNCHANGED <<environ, posargs, fs, session, pc, log, outcome, printed>>

\* The rest of the wrapper once func has ended; nox records how the call ended.
WrapperEnd ==
    /\ phase = "wrapper"
    /\ \E elapsed \in ElapsedChoices :
         LET w == IF session.name \in TimedSessions
                  THEN wrapper(body, elapsed)
                  ELSE [end |-> body, printed |-> <<>>]
         IN  /\ outcome' = w.end
             /\ printed' = w.printed
    /\ phase' = "done"
    /\ UNCHANGED <<environ, posargs, fs, session, pc, log, body>>

Next ==
    \/ StartSession
    \/ SessionInstall
    \/ SessionRun
    \/ SessionSkip
    \/ ShutilRmtree
    \/ OpenRead
    \/ FuncReturn
    \/ WrapperEnd

Spec == Init /\ [][Next]_vars

(***************************************************************************)
(* Vocabulary of the properties.                                           *)
(***************************************************************************)
Entries == 1..Len(log)

Ended == phase \in {"wrapper", "done"}

CredentialsUnsetOrEmpty ==
    \/ "GOOGLE_APPLICATION_CREDENTIALS" \notin DOMAIN environ
    \/ environ["GOOGLE_APPLICATION_CREDENTIALS"] = ""

IsPackageInstall(e) == e.op = "install" /\ e.args[1] = "-e"

IsUninstall(e) == e.op = "run" /\ e.args = UninstallPandasGbq.args

StrictlyNarrower(a, b) == a \subseteq b /\ a # b

\* The extras session `name` installs the package with on interpreter `python`.
ExtrasOn(name, python) ==
    LET step == CHOOSE s \in Range(Body(name, python, posargs)) : IsPackageInstall(s)
    IN  ParseExtras(step.args[2])

Lowest(name) ==
    IF name \in {"unit", "unit_noextras"}
    THEN UNIT_TEST_PYTHON_VERSIONS[1]
    ELSE SYSTEM_TEST_PYTHON_VERSIONS[1]

\* The arguments step `idx` of the running session has when the command
\* line carries no positional arguments.
FixedArgs(idx) == Body(session.name, session.python, <<>>)[idx].args

(***************************************************************************)
(* C1: in the system session, on every interpreter version, when           *)
(* GOOGLE_APPLICATION_CREDENTIALS is unset or empty the session ends       *)
(* skipped (not failed) and no install step and no external command of     *)
(* that session is executed; when it is set to a non-empty value the       *)
(* session is not skipped.                                                 *)
(***************************************************************************)
C1_SystemSkipsWithoutCredentials ==
    session.name = "system" =>
        IF CredentialsUnsetOrEmpty
        THEN /\ \A i \in Entries : log[i].op \notin {"install", "run"}
             /\ phase = "body" => log = <<>> /\ Steps[pc].op = "skip"
             /\ Ended => body.outcome = "skipped"
             /\ phase = "done" => outcome.outcome = "skipped"
        ELSE /\ \A i \in Entries : log[i].op # "skip"
             /\ body.outcome # "skipped"
             /\ outcome.outcome # "skipped"

C1_Witness ==
    /\ session = [name |-> "system", python |-> "3.13"]
    /\ "GOOGLE_APPLICATION_CREDENTIALS" \in DOMAIN environ
    /\ environ["GOOGLE_APPLICATION_CREDENTIALS"] = ""
    /\ phase = "done"
    /\ outcome.outcome = "skipped"
    /\ Len(log) = 1

(***************************************************************************)
(* C2 as stated: in unit, system and snippets, the extras installed on the *)
(* lowest supported interpreter version are strictly narrower than the     *)
(* extras installed on every other version of that session.                *)
(***************************************************************************)
C2_LowestNarrowerInEverySession ==
    \A i \in Entries :
        /\ session.name \in {"unit", "system", "snippets"}
        /\ session.python = Lowest(session.name)
        /\ IsPackageInstall(log[i])
        => \A v \in Pythons(session.name) \ {session.python} :
             StrictlyNarrower(ParseExtras(log[i].args[2]), ExtrasOn(session.name, v))

(***************************************************************************)
(* C2 amended: in unit the extras installed on the lowest version are      *)
(* strictly narrower than on every other version (which install [all]);   *)
(* in system and snippets the lowest version installs [all], no version    *)
(* installs more, and it is 3.11 and 3.12 that install strictly less.      *)
(***************************************************************************)
C2_LowestNarrowerInUnitOnly ==
    \A i \in Entries :
        /\ session.python = Lowest(session.name)
        /\ IsPackageInstall(log[i])
        => LET installed == ParseExtras(log[i].args[2])
               others == Pythons(session.name) \ {session.python}
           IN  /\ session.name = "unit" =>
                    \A v \in others :
                        /\ StrictlyNarrower(installed, ExtrasOn("unit", v))
                        /\ ExtrasOn("unit", v) = AllExtras
               /\ session.name \in {"system", "snippets"} =>
                    /\ installed = AllExtras
                    /\ \A v \in others : ExtrasOn(session.name, v) \subseteq installed
                    /\ \A v \in others :
                         StrictlyNarrower(ExtrasOn(session.name, v), installed)
                             <=> v \in {"3.11", "3.12"}

C2_Witness ==
    /\ session = [name |-> "unit", python |-> "3.9"]
    /\ \E i \in Entries :
         /\ IsPackageInstall(log[i])
         /\ log[i].ok
         /\ "ipython" \notin ParseExtras(log[i].args[2])

(***************************************************************************)
(* C3: every session is fail-fast without retries: once an install step or *)
(* an external command fails no later step of the session is executed and  *)
(* the session ends failed; no step is executed more than once; the        *)
(* session ends as success only if every step it invoked succeeded, and in *)
(* cover "coverage erase" runs only after "coverage report" succeeded.     *)
(***************************************************************************)
C3_FailFastNoRetries ==
    /\ \A i, j \in Entries : i < j => log[i].idx < log[j].idx
    /\ \A i \in Entries : ~log[i].ok => i = Len(log)
    /\ (\E i \in Entries : ~log[i].ok) =>
         /\ Ended
         /\ body.outcome = "failed"
         /\ phase = "done" => outcome.outcome = "failed"
    /\ (phase = "done" /\ outcome.outcome = "returned") =>
         /\ \A i \in Entries : log[i].ok
         /\ Len(log) = Len(Steps)
    /\ \A i \in Entries :
         (session.name = "cover" /\ IsCoverage(log[i].args, "erase")) =>
            \E j \in 1..(i - 1) : IsCoverage(log[j].args, "report") /\ log[j].ok

C3_Witness ==
    /\ session.name = "cover"
    /\ phase = "done"
    /\ outcome.outcome = "failed"
    /\ Len(log) = 3
    /\ IsCoverage(log[3].args, "report")
    /\ ~log[3].ok

(***************************************************************************)
(* C4 as stated: sessions are independent: no step of a session reads a    *)
(* file artifact that another session wrote (the coverage data, the        *)
(* contents of docs/_build).                                               *)
(***************************************************************************)
OtherSessions == SessionNames \ {session.name}

C5_BuildRemovedBeforeSphinx ==
    session.name \in {"docs", "docfx"} =>
        \A i \in Entries :
            /\ log[i].op = "rmtree" => log[i].ok
            /\ IsSphinx(log[i].args) =>
                 /\ log[i].seen = {}
                 /\ \E j \in 1..(i - 1) : log[j].op = "rmtree" /\ log[j].ok
                 /\ \A j \in 1..(i - 1) : ~IsSphinx(log[j].args)

C5_Witness ==
    /\ session.name = "docs"
    /\ phase = "done"
    /\ outcome.outcome = "returned"
    /\ \E i \in Entries : log[i].op = "rmtree" /\ log[i].removed = {"docs"}
    /\ \E i \in Entries : IsSphinx(log[i].args) /\ log[i].seen = {}
    /\ fs.build = [exists |-> TRUE, files |-> {"docs"}]

(***************************************************************************)
(* C6 as stated: every sphinx-build invocation, of docs and of docfx,      *)
(* passes the warnings-as-errors flag -W.                                  *)
(***************************************************************************)
C6_EverySphinxBuildHasW ==
    \A i \in Entries : IsSphinx(log[i].args) => "-W" \in Range(log[i].args)

(***************************************************************************)
(* C6 amended: the HTML variant (docs) passes -W to sphinx-build and the   *)
(* docfx variant does not: a generator warning fails the docs session      *)
(* only.                                                                   *)
(***************************************************************************)
C6_OnlyDocsHasW ==
    \A i \in Entries :
        IsSphinx(log[i].args) =>
            /\ session.name \in {"docs", "docfx"}
            /\ "-W" \in Range(log[i].args) <=> session.name = "docs"

C6_Witness ==
    /\ session.name = "docfx"
    /\ phase = "done"
    /\ \E i \in Entries : IsSphinx(log[i].args) /\ "-W" \notin Range(log[i].args)

(***************************************************************************)
(* C7 as stated: in unit, unit_noextras, system, snippets and              *)
(* prerelease_deps every py.test invocation receives the command line's    *)
(* positional arguments, unmodified and in order, after its fixed          *)
(* arguments.                                                              *)
(***************************************************************************)
PytestSessions == {"unit", "unit_noextras", "system", "snippets", "prerelease_deps"}

C7_PosargsForwardedByEveryTestSession ==
    \A i \in Entries :
        (session.name \in PytestSessions /\ IsPytest(log[i].args)) =>
            log[i].args = FixedArgs(log[i].idx) \o posargs

(***************************************************************************)
(* C7 amended: in unit, unit_noextras, system and snippets every py.test   *)
(* invocation receives the positional arguments, unmodified and in order,  *)
(* after its fixed arguments; prerelease_deps passes its three py.test     *)
(* invocations the fixed arguments only.  No other session invokes         *)
(* py.test.                                                                *)
(***************************************************************************)
C7_PosargsForwardedExceptPrerelease ==
    \A i \in Entries :
        IsPytest(log[i].args) =>
            /\ session.name \in PytestSessions
            /\ session.name # "prerelease_deps" =>
                 log[i].args = FixedArgs(log[i].idx) \o posargs
            /\ session.name = "prerelease_deps" =>
                 log[i].args = FixedArgs(log[i].idx)

C7_Witness ==
    /\ session.name = "snippets"
    /\ posargs = <<"-k", "test_query">>
    /\ Cardinality({i \in Entries : IsPytest(log[i].args)}) = 2
    /\ \A i \in Entries :
         IsPytest(log[i].args) =>
            SubSeq(log[i].args, Len(log[i].args) - 1, Len(log[i].args)) = posargs

(***************************************************************************)
(* C8: every registered session is wrapped by the timing decorator and the *)
(* wrapper is observational: however the session body ends (return, skip,  *)
(* failure) the wrapped session has executed the body's steps once and     *)
(* ends with the same outcome and return value.                            *)
(***************************************************************************)
C8_WrapperObservational ==
    /\ SessionNames \subseteq TimedSessions
    /\ phase = "done" =>
         /\ body.outcome \in {"returned", "skipped", "failed"}
         /\ outcome = body
         /\ \A i, j \in Entries : i # j => log[i].idx # log[j].idx
         /\ body.outcome = "returned" => Len(log) = Len(Steps)

C8_Witness ==
    /\ session.name = "lint_setup_py"
    /\ phase = "done"
    /\ body = Returned(NoValue)
    /\ outcome = Returned(NoValue)
    /\ printed = <<"Session ran in 3662 seconds (1:01:02)">>

(***************************************************************************)
(* C9: lint and blacken run black over the same fixed, non-empty           *)
(* BLACK_PATHS, which covers the library source, the tests, the docs       *)
(* samples and noxfile.py; lint always passes --check and blacken never    *)
(* does; in lint black runs only after the five flake8 invocations         *)
(* succeeded.                                                              *)
(***************************************************************************)
IsBlack(e) == e.op = "run" /\ e.args[1] = "black"

C9_LintChecksBlackenRewrites ==
    /\ BLACK_PATHS # <<>>
    /\ {"google", "tests", "docs", "noxfile.py"} \subseteq Range(BLACK_PATHS)
    /\ \A i \in Entries :
         IsBlack(log[i]) =>
            /\ session.name \in {"lint", "blacken"}
            /\ session.name = "lint" =>
                 /\ log[i].args = <<"black", "--check">> \o BLACK_PATHS
                 /\ Cardinality({j \in 1..(i - 1) :
                        log[j].op = "run" /\ log[j].args[1] = "flake8" /\ log[j].ok}) = 5
            /\ session.name = "blacken" =>
                 /\ log[i].args = <<"black">> \o BLACK_PATHS
                 /\ "--check" \notin Range(log[i].args)

C9_Witness ==
    /\ session.name = "lint"
    /\ phase = "done"
    /\ \E i \in Entries : IsBlack(log[i]) /\ "--check" \in Range(log[i].args)

(***************************************************************************)
(* C10 as stated: in unit, unit_noextras and system pandas-gbq is          *)
(* uninstalled if and only if the interpreter is the lowest supported      *)
(* version, after the package under test is installed and before py.test   *)
(* is invoked; and on that version the package is installed with at least  *)
(* one optional extra omitted.                                             *)
(***************************************************************************)
UninstallSessions == {"unit", "unit_noextras", "system"}

UninstallPlacedOnLowest ==
    \A i \in Entries :
        /\ IsUninstall(log[i]) =>
             /\ session.name \in UninstallSessions
             /\ session.python = Lowest(session.name)
             /\ \E j \in 1..(i - 1) : IsPackageInstall(log[j]) /\ log[j].ok
             /\ \A j \in 1..(i - 1) : ~IsPytest(log[j].args)
        /\ ( /\ session.name \in UninstallSessions
             /\ session.python = Lowest(session.name)
             /\ IsPytest(log[i].args) )
           => \E j \in 1..(i - 1) : IsUninstall(log[j]) /\ log[j].ok

C10_UninstallAndOmittedExtraOnLowest ==
    /\ UninstallPlacedOnLowest
    /\ \A i \in Entries :
         ( /\ session.name \in UninstallSessions
           /\ session.python = Lowest(session.name)
           /\ IsPackageInstall(log[i]) )
         => StrictlyNarrower(ParseExtras(log[i].args[2]), AllExtras)

(***************************************************************************)
(* C10 amended: the uninstall happens exactly on the lowest version, after *)
(* the package install and before py.test, in all three sessions; on that  *)
(* version unit and unit_noextras install the package with at least one    *)
(* optional extra omitted, while system installs it with [all], no extra   *)
(* omitted.                                                                *)
(***************************************************************************)
C10_UninstallOnLowestExtraOmittedInUnit ==
    /\ UninstallPlacedOnLowest
    /\ \A i \in Entries :
         (session.python = Lowest(session.name) /\ IsPackageInstall(log[i])) =>
            /\ session.name \in {"unit", "unit_noextras"} =>
                 StrictlyNarrower(ParseExtras(log[i].args[2]), AllExtras)
            /\ session.name = "system" => ParseExtras(log[i].args[2]) = AllExtras

C10_Witness ==
    /\ session = [name |-> "unit_noextras", python |-> "3.9"]
    /\ \E i, j, k \in Entries :
         /\ i < j /\ j < k
         /\ IsPackageInstall(log[i]) /\ ParseExtras(log[i].args[2]) = {}
         /\ IsUninstall(log[j])
         /\ IsPytest(log[k].args)

(***************************************************************************)
(* C11: the line "Session ran in ..." is printed exactly once per session  *)
(* execution if and only if the session body returns normally; when the    *)
(* body ends by a skip or by a failing step the wrapper prints nothing;    *)
(* and the line is never printed before the body's last step has finished. *)
(***************************************************************************)
C11_DurationLineOnlyAfterNormalReturn ==
    /\ Len(printed) <= 1
    /\ phase # "done" => printed = <<>>
    /\ phase = "done" =>
         /\ Len(printed) = 1 <=> body.outcome = "returned"
         /\ body.outcome \in {"skipped", "failed"} => printed = <<>>
    /\ printed # <<>> =>
         /\ printed[1] \in { DurationLine(elapsed) : elapsed \in ElapsedChoices }
         /\ Len(log) = Len(Steps)
         /\ \A i \in Entries : log[i].ok /\ log[i].op # "skip"

C11_Witness ==
    /\ session.name = "cover"
    /\ phase = "done"
    /\ body.outcome = "returned"
    /\ Len(log) = 4
    /\ printed = <<"Session ran in 62 seconds (0:01:02)">>

=============================================================================
